---- MODULE Spec2Model ----
(***************************************************************************)
(* A model of the attribute registry (activerecord/attibute.go) and of the *)
(* association resolvers and registry (activerecord/association.go).       *)
(*                                                                         *)
(* Go values are modelled as follows.                                      *)
(*   - an interface{} value is a record with one field naming its dynamic  *)
(*     type: [int |-> n], [str |-> s], or Nil;                             *)
(*   - an error is a record with a "kind" field, NoErr being nil;          *)
(*   - a map is a function with a finite domain of strings; a map that may *)
(*     be nil is wrapped as [isNil |-> BOOLEAN, m |-> function];           *)
(*   - a Go map is a reference: the schema map handed to newAttributes is  *)
(*     the very map the registry keeps as `keys`, so the variable          *)
(*     attrSchema is both the record kind's schema and every instance's    *)
(*     `keys`.                                                             *)
(***************************************************************************)
EXTENDS Integers, Sequences, FiniteSets, TLC

VARIABLES
    attrSchema,   \* the record kind's attribute map (attributes.keys, shared)
    attrRec,      \* the attributes instance of the record, or NoRec
    attrLast,     \* the last attribute-registry call and what it returned
    firstBuilt,   \* what the first successful newAttributes returned, or NoRec
    assocKeys,    \* associations.keys: association name -> Association
    assocValues,  \* associations.values: association name -> cached record
    registered,   \* the record kinds Schema-Reflection can resolve
    assocLast     \* the last association-registry call and what it returned

attrVars == <<attrSchema, attrRec, attrLast, firstBuilt>>
assocVars == <<assocKeys, assocValues, registered, assocLast>>
vars == <<attrSchema, attrRec, attrLast, firstBuilt,
          assocKeys, assocValues, registered, assocLast>>

(***************************************************************************)
(* Bounds of the model.                                                    *)
(***************************************************************************)
MaxInitValues == 1   \* entries of the initial value map given to newAttributes
MaxRows == 3         \* rows of a target table
MaxCached == 1       \* entries of the association values cache

(***************************************************************************)
(* Values, errors and maps.                                                *)
(***************************************************************************)
Nil == [nil |-> TRUE]
IntVal(n) == [int |-> n]
StrVal(s) == [str |-> s]
Values == {Nil, IntVal(1), IntVal(2), StrVal("a")}

NoErr == [kind |-> "nil"]
NoRec == [none |-> TRUE]
EmptyMap == [k \in {} |-> Nil]
NilMap == [isNil |-> TRUE, m |-> EmptyMap]
MakeMap(f) == [isNil |-> FALSE, m |-> f]

\* m[k] = v on a Go map
MapSet(f, k, v) == [n \in (DOMAIN f) \cup {k} |-> IF n = k THEN v ELSE f[n]]
\* m[k] on a Go map of interface{}: the zero value nil when k is absent
MapGet(f, k) == IF k \in DOMAIN f THEN f[k] ELSE Nil

(***************************************************************************)
(* Attributes.                                                             *)
(***************************************************************************)
CastInt == "int"   \* the constant Int (a name Integers takes)
String == "string"
defaultPrimaryKeyName == "id"

AttrNames == {"id", "name", "uid"}
UnknownNames == {"ghost"}

\* IntAttr{Name, Validates} and StringAttr{Name, Validates}; pk says whether
\* the attribute is wrapped in PrimaryKey{}.  A validation rule is an upper
\* bound on an integer value.
IntAttr(name, rules) == [name |-> name, castType |-> CastInt, pk |-> FALSE, validates |-> rules]
StringAttr(name) == [name |-> name, castType |-> String, pk |-> FALSE, validates |-> {}]
PrimaryKey(attr) == [attr EXCEPT !.pk = TRUE]

\* primaryKey interface: attr.(primaryKey) succeeds and PrimaryKey() is true
IsPrimaryKey(attr) == attr.pk

\* The validators of an attribute: the value must have the attribute's cast
\* type and pass every rule.
Validate(attr, val) ==
    IF attr.castType = CastInt
    THEN IF DOMAIN val # {"int"}
         THEN [kind |-> "InvalidValue", attr |-> attr.name]
         ELSE IF \E max \in attr.validates : val.int > max
              THEN [kind |-> "Validation", attr |-> attr.name]
              ELSE NoErr
    ELSE IF DOMAIN val # {"str"}
         THEN [kind |-> "InvalidValue", attr |-> attr.name]
         ELSE NoErr

\* The declarations one name can carry in a schema map.
AttrChoices(name) ==
    { IntAttr(name, {}), IntAttr(name, {1}), StringAttr(name),
      PrimaryKey(IntAttr(name, {})), PrimaryKey(StringAttr(name)) }

\* Every schema map: a subset of the names, each with one declaration.
WellKeyed(schema) == \A n \in DOMAIN schema : schema[n].name = n

Schemas ==
    { s \in UNION { [S -> UNION { AttrChoices(n) : n \in S }] : S \in SUBSET AttrNames } :
        WellKeyed(s) }

\* The initial value maps given to newAttributes: nil, or a map of at most
\* MaxInitValues entries.
InitValueMaps ==
    {NilMap} \cup
    { MakeMap(f) : f \in UNION { [S -> Values] :
        S \in { T \in SUBSET (AttrNames \cup UnknownNames) : Cardinality(T) <= MaxInitValues } } }

\* ErrUnknownAttribute
ErrUnknownAttribute(attr) == [kind |-> "UnknownAttribute", attr |-> attr]
ErrMultiplePrimaryKeys == [kind |-> "MultiplePrimaryKeys"]
ErrReservedName == [kind |-> "NotAPrimaryKey", attr |-> defaultPrimaryKeyName]

\* newAttributes(recordName, attrs, values): the set of outcomes
\* [err, rec, keys], keys being the schema map as the call leaves it.  The
\* loops range over Go maps in no fixed order, so with several unknown value
\* names any of them may be the one reported.
NewAttributes(attrs, values) ==
    LET pks == { n \in DOMAIN attrs : IsPrimaryKey(attrs[n]) }
    IN  IF Cardinality(pks) >= 2
        THEN { [err |-> ErrMultiplePrimaryKeys, rec |-> NoRec, keys |-> attrs] }
        ELSE IF defaultPrimaryKeyName \in DOMAIN attrs
        THEN { [err |-> ErrReservedName, rec |-> NoRec, keys |-> attrs] }
        ELSE
        LET synth == PrimaryKey(IntAttr(defaultPrimaryKeyName, {}))
            pk == IF pks = {} THEN synth ELSE attrs[CHOOSE n \in pks : TRUE]
            keys == IF pks = {} THEN MapSet(attrs, defaultPrimaryKeyName, synth) ELSE attrs
            unknown == (DOMAIN values.m) \ (DOMAIN keys)
        IN  IF unknown # {}
            THEN { [err |-> ErrUnknownAttribute(n), rec |-> NoRec, keys |-> keys] : n \in unknown }
            ELSE { [err |-> NoErr,
                    rec |-> [primaryKey |-> pk, values |-> values],
                    keys |-> keys] }

\* attributes.PrimaryKey
PrimaryKeyName(rec) == rec.primaryKey.name

\* attributes.ID
ID(rec) == MapGet(rec.values.m, rec.primaryKey.name)

\* attributes.HasAttribute
HasAttribute(keys, attrName) == attrName \in DOMAIN keys

\* attributes.AssignAttribute that stores the value before validating it
AssignAttributeStoreFirst(keys, rec, attrName, val) ==
    IF attrName \notin DOMAIN keys
    THEN [err |-> ErrUnknownAttribute(attrName), rec |-> rec]
    ELSE [err |-> Validate(keys[attrName], val),
          rec |-> [rec EXCEPT !.values = MakeMap(MapSet(rec.values.m, attrName, val))]]

\* attributes.AssignAttribute: [err, rec], rec being the instance afterwards
AssignAttribute(keys, rec, attrName, val) ==
    IF attrName \notin DOMAIN keys
    THEN [err |-> ErrUnknownAttribute(attrName), rec |-> rec]
    ELSE IF Validate(keys[attrName], val) # NoErr
    THEN [err |-> Validate(keys[attrName], val), rec |-> rec]
    ELSE [err |-> NoErr,
          rec |-> [rec EXCEPT !.values = MakeMap(MapSet(rec.values.m, attrName, val))]]

\* attributes.AccessAttribute
AccessAttribute(keys, rec, attrName) ==
    IF ~HasAttribute(keys, attrName) THEN Nil ELSE MapGet(rec.values.m, attrName)

\* attributes.AttributePresent
AttributePresent(keys, rec, attrName) ==
    IF attrName \notin DOMAIN keys THEN FALSE ELSE MapGet(rec.values.m, attrName) # Nil

(***************************************************************************)
(* The attribute registry as a state machine: a record kind is declared    *)
(* with some schema map; instances are built from it and assigned to.      *)
(***************************************************************************)
NoCall == [op |-> "none"]

\* a record kind declared with some schema map and no instance built yet;
\* the association registry is left aside
InitAttr ==
    /\ attrSchema \in Schemas
    /\ attrRec = NoRec
    /\ attrLast = NoCall
    /\ firstBuilt = NoRec
    /\ assocKeys = EmptyMap
    /\ assocValues = EmptyMap
    /\ registered = {}
    /\ assocLast = NoCall

\* a call of newAttributes on the record kind's schema map
DoNewAttributes ==
    /\ \E values \in InitValueMaps : \E out \in NewAttributes(attrSchema, values) :
        /\ attrSchema' = out.keys
        /\ attrRec' = IF out.err = NoErr THEN out.rec ELSE attrRec
        /\ firstBuilt' = IF firstBuilt = NoRec /\ out.err = NoErr
                         THEN [primaryKey |-> out.rec.primaryKey, names |-> DOMAIN out.keys]
                         ELSE firstBuilt
        /\ attrLast' = [op |-> "new",
                        err |-> out.err,
                        schemaBefore |-> attrSchema,
                        valueNames |-> DOMAIN values.m,
                        again |-> firstBuilt # NoRec,
                        primaryKey |-> IF out.err = NoErr THEN out.rec.primaryKey ELSE NoRec]
    /\ UNCHANGED assocVars

\* a call of AssignAttribute on the instance
DoAssignAttribute ==
    /\ attrRec # NoRec
    /\ \E attrName \in AttrNames \cup UnknownNames : \E val \in Values :
        LET out == AssignAttribute(attrSchema, attrRec, attrName, val)
        IN  /\ attrRec' = out.rec
            /\ attrLast' = [op |-> "assign", name |-> attrName, val |-> val, err |-> out.err]
    /\ UNCHANGED <<attrSchema, firstBuilt>>
    /\ UNCHANGED assocVars

NextAttr == DoNewAttributes \/ DoAssignAttribute

(***************************************************************************)
(* Collaborators of the association resolvers: the owner record, the       *)
(* Result types, Schema-Reflection and the Relation query builder.         *)
(***************************************************************************)
NoLimit == 0

\* *ActiveRecord: a nil pointer, or a record of some kind with its row's id
NilRecord == [nilrec |-> TRUE]
Record(kind, row) == [kind |-> kind, id |-> row.id]

\* The owner the registry delegates to (associations.rec): Name(), Context(),
\* ID() and Attribute(name).
Owner ==
    [name |-> "Owner", ctx |-> "ctx",
     attrs |-> [id |-> IntVal(1), target_id |-> IntVal(2),
                targets_id |-> IntVal(2), ref_id |-> IntVal(1)]]
OwnerID(owner) == MapGet(owner.attrs, "id")
OwnerAttribute(owner, name) == MapGet(owner.attrs, name)

\* strings.ToLower on the names the model uses
ToLower(s) ==
    CASE s = "Owner" -> "owner"
      [] s = "OWNER" -> "owner"
      [] OTHER -> s

\* RecordResult: OkRecord, ErrRecord
OkRecord(rec) == [ok |-> TRUE, val |-> rec, err |-> NoErr]
ErrRecord(err) == [ok |-> FALSE, val |-> NilRecord, err |-> err]

\* CollectionResult: Ok(relation), ErrCollection; a nil *Relation is NoRelation
NoRelation == [norel |-> TRUE]
OkCollection(rel) == [ok |-> TRUE, val |-> rel, err |-> NoErr]
ErrCollection(err) == [ok |-> FALSE, val |-> NoRelation, err |-> err]

\* result.Ok().UnwrapOr(nil) and result.Err()
UnwrapOrNil(res, nil) == IF res.ok THEN res.val ELSE nil
ErrOf(res) == res.err

\* Relation: a lazy query on one record kind
Relation(name) == [name |-> name, ctx |-> "", wheres |-> <<>>, limit |-> NoLimit]
WithContext(rel, ctx) == [rel EXCEPT !.ctx = ctx]
Where(rel, col, val) == [rel EXCEPT !.wheres = Append(@, <<col, val>>)]
Limit(rel, n) == [rel EXCEPT !.limit = n]

\* Reflection.Reflection(name): [rel, err]
ErrUnknownReflection(name) == [kind |-> "UnknownReflection", name |-> name]
Reflection(reg, name) ==
    IF name \in reg
    THEN [rel |-> Relation(name), err |-> NoErr]
    ELSE [rel |-> NoRelation, err |-> ErrUnknownReflection(name)]

\* The rows of a target table: each has a primary-key column "id".
RowIds == 1..2
Tables == UNION { [1..n -> [id : RowIds]] : n \in 0..MaxRows }

Column(row, col) == IF col \in DOMAIN row THEN IntVal(row[col]) ELSE Nil
Matches(rel, row) ==
    \A i \in DOMAIN rel.wheres : Column(row, rel.wheres[i][1]) = rel.wheres[i][2]
Take(seq, n) == SubSeq(seq, 1, IF Len(seq) < n THEN Len(seq) ELSE n)
Rows(rel, table) ==
    LET all == SelectSeq(table, LAMBDA row : Matches(rel, row))
    IN  IF rel.limit = NoLimit THEN all ELSE Take(all, rel.limit)

ErrEngine == [kind |-> "Engine"]
ErrRecordNotFound == [kind |-> "RecordNotFound"]

\* Relation.ToA on a table; up says whether the storage engine answers
ToA(rel, table, up) ==
    IF ~up
    THEN [recs |-> <<>>, err |-> ErrEngine]
    ELSE [recs |-> [i \in DOMAIN Rows(rel, table) |-> Record(rel.name, Rows(rel, table)[i])],
          err |-> NoErr]

\* Relation.Find(id) on a table: the row whose primary key is id
Find(rel, id, table, up) ==
    IF ~up
    THEN ErrRecord(ErrEngine)
    ELSE LET found == Rows(Where(rel, defaultPrimaryKeyName, id), table)
         IN  IF Len(found) = 0
             THEN ErrRecord(ErrRecordNotFound)
             ELSE OkRecord(Record(rel.name, found[1]))

(***************************************************************************)
(* Association resolvers.                                                  *)
(***************************************************************************)
BelongsTo(targetName, fk) ==
    [type |-> "belongs_to", owner |-> Owner.name, targetName |-> targetName, foreignKey |-> fk]
HasMany(targetName, fk) ==
    [type |-> "has_many", owner |-> Owner.name, targetName |-> targetName, foreignKey |-> fk]
HasOne(targetName, fk) ==
    [type |-> "has_one", owner |-> Owner.name, targetName |-> targetName, foreignKey |-> fk]

\* BelongsTo.AssociationName, HasMany.AssociationName
TargetAssociationName(a) == a.targetName

\* HasOne.AssociationName
HasOneAssociationName(a) ==
    IF a.foreignKey # "" THEN a.foreignKey
    ELSE a.targetName \o "_" \o defaultPrimaryKeyName

AssociationName(a) ==
    IF a.type = "has_one" THEN HasOneAssociationName(a) ELSE TargetAssociationName(a)

\* BelongsTo.AssociationForeignKey
BelongsToForeignKey(a) ==
    IF a.foreignKey # "" THEN a.foreignKey
    ELSE a.targetName \o "_" \o defaultPrimaryKeyName

\* HasMany.AssociationForeignKey
HasManyForeignKey(a) ==
    IF a.foreignKey # "" THEN a.foreignKey
    ELSE ToLower(a.owner) \o "_" \o defaultPrimaryKeyName

\* HasOne.AssociationForeignKey
HasOneForeignKey(a) == defaultPrimaryKeyName

AssociationForeignKey(a) ==
    CASE a.type = "belongs_to" -> BelongsToForeignKey(a)
      [] a.type = "has_many" -> HasManyForeignKey(a)
      [] a.type = "has_one" -> HasOneForeignKey(a)

\* The storage engine as a fetch finds it: the rows of the target table,
\* and whether the engine answers.
Storage == Tables \X BOOLEAN

\* the rows of the target table that the association is about: for
\* BelongsTo those whose primary key is the owner's foreign-key attribute,
\* otherwise those whose foreign-key column is the owner's id
Matching(a, owner, table) ==
    IF a.type = "belongs_to"
    THEN SelectSeq(table, LAMBDA row :
            Column(row, defaultPrimaryKeyName) =
                OwnerAttribute(owner, AssociationForeignKey(a)))
    ELSE SelectSeq(table, LAMBDA row :
            Column(row, AssociationForeignKey(a)) = OwnerID(owner))

\* what a fetch saw of the storage engine
NoSeen == [up |-> TRUE, matched |-> 0]
SeenOf(a, owner, st) == [up |-> st[2], matched |-> Len(Matching(a, owner, st[1]))]

\* What a fetch returns, with what it did on the way: the names it asked
\* Schema-Reflection for, the column it narrowed or looked up by, the number
\* of rows it materialised, and what it saw of the storage engine.  A fetch
\* that reaches the storage engine has one outcome for each state the
\* engine can be in.
Fetched(res, reflected, column, fetched, seen) ==
    [res |-> res, reflected |-> reflected, column |-> column, fetched |-> fetched,
     seen |-> seen]

\* BelongsTo.AccessAssociation that answers Ok(nil) when reflection fails
BelongsToSwallow(a, owner, reg) ==
    LET targets == Reflection(reg, a.targetName)
    IN  IF targets.err # NoErr
        THEN { Fetched(OkRecord(NilRecord), <<a.targetName>>, "", 0, NoSeen) }
        ELSE { Fetched(Find(WithContext(targets.rel, owner.ctx),
                            OwnerAttribute(owner, BelongsToForeignKey(a)), st[1], st[2]),
                       <<a.targetName>>, BelongsToForeignKey(a), 0, SeenOf(a, owner, st)) :
                 st \in Storage }

\* BelongsTo.AccessAssociation
BelongsToAccessAssociation(a, owner, reg) ==
    LET targets == Reflection(reg, a.targetName)
    IN  IF targets.err # NoErr
        THEN { Fetched(ErrRecord(targets.err), <<a.targetName>>, "", 0, NoSeen) }
        ELSE { Fetched(Find(WithContext(targets.rel, owner.ctx),
                            OwnerAttribute(owner, BelongsToForeignKey(a)), st[1], st[2]),
                       <<a.targetName>>, BelongsToForeignKey(a), 0, SeenOf(a, owner, st)) :
                 st \in Storage }

\* HasMany.AccessCollection: the relation is returned unexecuted
HasManyAccessCollection(a, owner, reg) ==
    LET targets == Reflection(reg, a.targetName)
    IN  IF targets.err # NoErr
        THEN Fetched(ErrCollection(targets.err), <<a.targetName>>, "", 0, NoSeen)
        ELSE Fetched(OkCollection(Where(WithContext(targets.rel, owner.ctx),
                                        HasManyForeignKey(a), OwnerID(owner))),
                     <<a.targetName>>, HasManyForeignKey(a), 0, NoSeen)

ErrHasMany == [kind |-> "Association", message |-> "declared 'has_one' association, but has many"]

\* HasOne.AccessAssociation that fetches one row only
HasOneLimitOne(a, owner, reg) ==
    LET targets == Reflection(reg, a.targetName)
    IN  IF targets.err # NoErr
        THEN { Fetched(ErrRecord(targets.err), <<a.targetName>>, "", 0, NoSeen) }
        ELSE
        LET narrowed == Where(WithContext(targets.rel, owner.ctx),
                              HasOneForeignKey(a), OwnerID(owner))
        IN  { LET got == ToA(Limit(narrowed, 1), st[1], st[2])
              IN  IF got.err # NoErr
                  THEN Fetched(ErrRecord(got.err), <<a.targetName>>, HasOneForeignKey(a), 0,
                               SeenOf(a, owner, st))
                  ELSE Fetched(CASE Len(got.recs) = 0 -> OkRecord(NilRecord)
                                 [] Len(got.recs) = 1 -> OkRecord(got.recs[1])
                                 [] OTHER -> ErrRecord(ErrHasMany),
                               <<a.targetName>>, HasOneForeignKey(a), Len(got.recs),
                               SeenOf(a, owner, st)) :
                st \in Storage }

\* HasOne.AccessAssociation
HasOneAccessAssociation(a, owner, reg) ==
    LET targets == Reflection(reg, a.targetName)
    IN  IF targets.err # NoErr
        THEN { Fetched(ErrRecord(targets.err), <<a.targetName>>, "", 0, NoSeen) }
        ELSE
        LET narrowed == Where(WithContext(targets.rel, owner.ctx),
                              HasOneForeignKey(a), OwnerID(owner))
        IN  { LET got == ToA(Limit(narrowed, 2), st[1], st[2])
              IN  IF got.err # NoErr
                  THEN Fetched(ErrRecord(got.err), <<a.targetName>>, HasOneForeignKey(a), 0,
                               SeenOf(a, owner, st))
                  ELSE Fetched(CASE Len(got.recs) = 0 -> OkRecord(NilRecord)
                                 [] Len(got.recs) = 1 -> OkRecord(got.recs[1])
                                 [] OTHER -> ErrRecord(ErrHasMany),
                               <<a.targetName>>, HasOneForeignKey(a), Len(got.recs),
                               SeenOf(a, owner, st)) :
                st \in Storage }

\* assoc.(SingularAssociation), assoc.(CollectionAssociation)
IsSingular(a) == a.type \in {"belongs_to", "has_one"}
IsCollection(a) == a.type = "has_many"

\* sa.AccessAssociation(owner) by the association's dynamic type
SingularAccess(a, owner, reg) ==
    IF a.type = "belongs_to"
    THEN BelongsToAccessAssociation(a, owner, reg)
    ELSE HasOneAccessAssociation(a, owner, reg)

(***************************************************************************)
(* The association registry.                                               *)
(***************************************************************************)
AssocNames == {"target", "targets"}
RecordKinds == {"target", "targets"}
ForeignKeys == {"", "ref_id"}

\* The declarations one name can carry in the association map of a record
\* kind: r.BelongsTo(name), r.HasMany(name), r.HasOne(name), with or without
\* an explicit foreign key.
AssocChoices(name) ==
    UNION { { BelongsTo(name, fk), HasMany(name, fk), HasOne(name, fk) } : fk \in ForeignKeys }

AssocSchemas ==
    { s \in UNION { [S -> UNION { AssocChoices(n) : n \in S }] : S \in SUBSET AssocNames } :
        \A n \in DOMAIN s : s[n].targetName = n }

\* ErrUnknownAssociation, ErrAssociation
ErrUnknownAssociation(name) == [kind |-> "UnknownAssociation", assoc |-> name]
ErrNotSingular(name) ==
    [kind |-> "Association", message |-> "'" \o name \o "' is not a singular association"]
ErrNotCollection(name) ==
    [kind |-> "Association", message |-> "'" \o name \o "' is not a collection association"]

\* associations.HasAssociation
HasAssociation(keys, assocName) == assocName \in DOMAIN keys

\* associations.HasAssociations
HasAssociations(keys, assocNames) == \A n \in assocNames : HasAssociation(keys, n)

\* associations.get: the association, or NoRec for nil
get(keys, assocName) == IF ~HasAssociation(keys, assocName) THEN NoRec ELSE keys[assocName]

\* What a registry accessor returns, with what it did on the way: whether it
\* invoked the resolver, and the resolver's trace.
Accessed(res, resolved, f) ==
    [res |-> res, resolved |-> resolved, reflected |-> f.reflected,
     column |-> f.column, fetched |-> f.fetched, seen |-> f.seen]
NoFetch == Fetched(NoRec, <<>>, "", 0, NoSeen)

\* associations.Association that never looks at the values cache
AssociationUncached(keys, values, owner, reg, assocName) ==
    LET assoc == get(keys, assocName)
    IN  IF assoc = NoRec
        THEN { Accessed(ErrRecord(ErrUnknownAssociation(assocName)), FALSE, NoFetch) }
        ELSE IF ~IsSingular(assoc)
        THEN { Accessed(ErrRecord(ErrNotSingular(assocName)), FALSE, NoFetch) }
        ELSE { Accessed(f.res, TRUE, f) : f \in SingularAccess(assoc, owner, reg) }

\* associations.Association: the outcomes of the call
Association(keys, values, owner, reg, assocName) ==
    LET assoc == get(keys, assocName)
    IN  IF assoc = NoRec
        THEN { Accessed(ErrRecord(ErrUnknownAssociation(assocName)), FALSE, NoFetch) }
        ELSE IF assocName \in DOMAIN values
        THEN { Accessed(OkRecord(values[assocName]), FALSE, NoFetch) }
        ELSE IF ~IsSingular(assoc)
        THEN { Accessed(ErrRecord(ErrNotSingular(assocName)), FALSE, NoFetch) }
        ELSE { Accessed(f.res, TRUE, f) : f \in SingularAccess(assoc, owner, reg) }

\* associations.AccessAssociation: the pairs (record, error) it can return
AccessAssociation(keys, values, owner, reg, assocName) ==
    { [val |-> UnwrapOrNil(assoc.res, NilRecord), err |-> ErrOf(assoc.res), of |-> assoc] :
        assoc \in Association(keys, values, owner, reg, assocName) }

\* associations.Collection that answers an empty relation for a singular
\* association
CollectionLenient(keys, owner, reg, collName) ==
    LET assoc == get(keys, collName)
    IN  IF assoc = NoRec
        THEN Accessed(ErrCollection(ErrUnknownAssociation(collName)), FALSE, NoFetch)
        ELSE IF ~IsCollection(assoc)
        THEN Accessed(OkCollection(Limit(Relation(assoc.targetName), 0)), FALSE, NoFetch)
        ELSE LET f == HasManyAccessCollection(assoc, owner, reg)
             IN  Accessed(f.res, TRUE, f)

\* associations.Collection
Collection(keys, owner, reg, collName) ==
    LET assoc == get(keys, collName)
    IN  IF assoc = NoRec
        THEN Accessed(ErrCollection(ErrUnknownAssociation(collName)), FALSE, NoFetch)
        ELSE IF ~IsCollection(assoc)
        THEN Accessed(ErrCollection(ErrNotCollection(collName)), FALSE, NoFetch)
        ELSE LET f == HasManyAccessCollection(assoc, owner, reg)
             IN  Accessed(f.res, TRUE, f)

\* associations.AccessCollection: the pair (relation, error)
AccessCollection(keys, owner, reg, collName) ==
    LET collection == Collection(keys, owner, reg, collName)
    IN  [val |-> UnwrapOrNil(collection.res, NoRelation), err |-> ErrOf(collection.res),
         of |-> collection]

\* AssociationReflection{Relation, Association}
AssociationReflection(rel, assoc) == [relation |-> rel, association |-> assoc]

\* associations.ReflectOnAssociation: the reflection, or NoRec for nil
ReflectOnAssociation(keys, reg, assocName) ==
    IF ~HasAssociation(keys, assocName)
    THEN NoRec
    ELSE LET r == Reflection(reg, AssociationName(keys[assocName]))
         IN  IF r.err # NoErr THEN NoRec
             ELSE AssociationReflection(r.rel, keys[assocName])

\* associations.ReflectOnAllAssociations: the reflections returned (the
\* slice follows the map's iteration order, which is not fixed)
ReflectOnAllAssociations(keys, reg) ==
    { AssociationReflection(Reflection(reg, AssociationName(keys[n])).rel, keys[n]) :
        n \in { k \in DOMAIN keys : Reflection(reg, AssociationName(keys[k])).rel # NoRelation } }

(***************************************************************************)
(* The association registry as a state machine.  A record kind is declared *)
(* with some association map and some record kinds are registered with     *)
(* Schema-Reflection; newAssociations starts the instance with an empty    *)
(* values cache.  Every fetch sees the target table as the storage engine  *)
(* holds it at that moment.                                                *)
(***************************************************************************)
InitAssoc ==
    /\ assocKeys \in AssocSchemas
    /\ registered \in SUBSET RecordKinds
    /\ assocValues = EmptyMap
    /\ assocLast = NoCall
    /\ attrSchema = EmptyMap
    /\ attrRec = NoRec
    /\ attrLast = NoCall
    /\ firstBuilt = NoRec

\* a call of Association(assocName)
DoAssociation ==
    /\ \E assocName \in AssocNames :
        \E out \in Association(assocKeys, assocValues, Owner, registered, assocName) :
            assocLast' = [op |-> "Association", name |-> assocName, out |-> out]
    /\ UNCHANGED <<assocKeys, assocValues, registered>>
    /\ UNCHANGED attrVars

\* a call of AccessAssociation(assocName)
DoAccessAssociation ==
    /\ \E assocName \in AssocNames :
        \E got \in AccessAssociation(assocKeys, assocValues, Owner, registered, assocName) :
            assocLast' = [op |-> "AccessAssociation", name |-> assocName, out |-> got.of,
                          val |-> got.val, err |-> got.err]
    /\ UNCHANGED <<assocKeys, assocValues, registered>>
    /\ UNCHANGED attrVars

\* a call of Collection(collName)
DoCollection ==
    /\ \E collName \in AssocNames :
        assocLast' = [op |-> "Collection", name |-> collName,
                      out |-> Collection(assocKeys, Owner, registered, collName)]
    /\ UNCHANGED <<assocKeys, assocValues, registered>>
    /\ UNCHANGED attrVars

\* a call of AccessCollection(collName)
DoAccessCollection ==
    /\ \E collName \in AssocNames :
        LET got == AccessCollection(assocKeys, Owner, registered, collName)
        IN  assocLast' = [op |-> "AccessCollection", name |-> collName, out |-> got.of,
                          val |-> got.val, err |-> got.err]
    /\ UNCHANGED <<assocKeys, assocValues, registered>>
    /\ UNCHANGED attrVars

\* a call of ReflectOnAssociation(assocName)
DoReflectOnAssociation ==
    /\ \E assocName \in AssocNames :
        assocLast' = [op |-> "ReflectOnAssociation", name |-> assocName,
                      got |-> ReflectOnAssociation(assocKeys, registered, assocName)]
    /\ UNCHANGED <<assocKeys, assocValues, registered>>
    /\ UNCHANGED attrVars

\* a call of ReflectOnAllAssociations()
DoReflectOnAllAssociations ==
    /\ assocLast' = [op |-> "ReflectOnAllAssociations",
                     got |-> ReflectOnAllAssociations(assocKeys, registered)]
    /\ UNCHANGED <<assocKeys, assocValues, registered>>
    /\ UNCHANGED attrVars

\* AssignAssociation(assocName, assoc): a record is stored in the values
\* cache under a name
DoAssignAssociation ==
    /\ \E assocName \in AssocNames : \E id \in RowIds :
        /\ assocName \in DOMAIN assocValues \/ Cardinality(DOMAIN assocValues) < MaxCached
        /\ assocValues' = MapSet(assocValues, assocName, Record(assocName, [id |-> id]))
        /\ assocLast' = [op |-> "AssignAssociation", name |-> assocName]
    /\ UNCHANGED <<assocKeys, registered>>
    /\ UNCHANGED attrVars

NextAssoc ==
    \/ DoAssociation
    \/ DoAccessAssociation
    \/ DoCollection
    \/ DoAccessCollection
    \/ DoReflectOnAssociation
    \/ DoReflectOnAllAssociations
    \/ DoAssignAssociation

(***************************************************************************)
(* Specifications: the attribute registry of a record, and the association *)
(* registry of a record.                                                   *)
(***************************************************************************)
SpecAttr == InitAttr /\ [][NextAttr]_vars

SpecAssoc == InitAssoc /\ [][NextAssoc]_vars

(***************************************************************************)
(* Properties of the attribute registry (SpecAttr).                        *)
(***************************************************************************)
PrimaryKeysOf(schema) == { n \in DOMAIN schema : IsPrimaryKey(schema[n]) }
SynthesizedKey == PrimaryKey(IntAttr(defaultPrimaryKeyName, {}))

\* C1: after newAttributes on a schema (with initial values it knows): with
\* no primary key and no attribute named "id" it succeeds and has put
\* exactly the integer primary key "id" into the schema; with exactly one
\* primary key, whatever its name, and no other attribute named "id", it
\* succeeds with that key and an unchanged schema; with two or more primary
\* keys it fails; and it fails with the reserved-name error only for a
\* schema whose "id" attribute is not a primary key.
C1_PrimaryKeyRule ==
    attrLast.op = "new" =>
        LET before == attrLast.schemaBefore
            pks == PrimaryKeysOf(before)
            plainId == defaultPrimaryKeyName \in DOMAIN before
                       /\ ~IsPrimaryKey(before[defaultPrimaryKeyName])
            known == attrLast.valueNames \subseteq
                        (DOMAIN before) \cup (IF pks = {} THEN {defaultPrimaryKeyName} ELSE {})
        IN  /\ (pks = {} /\ defaultPrimaryKeyName \notin DOMAIN before /\ known) =>
                    /\ attrLast.err = NoErr
                    /\ attrSchema = MapSet(before, defaultPrimaryKeyName, SynthesizedKey)
                    /\ attrLast.primaryKey = SynthesizedKey
            /\ (Cardinality(pks) = 1 /\ ~plainId /\ known) =>
                    /\ attrLast.err = NoErr
                    /\ attrLast.primaryKey \in { before[n] : n \in pks }
                    /\ attrSchema = before
            /\ Cardinality(pks) >= 2 => attrLast.err # NoErr
            /\ attrLast.err = ErrReservedName => plainId

\* C10: a construction that follows a successful one on the same schema
\* map, with initial values the schema knows, succeeds with the same primary
\* key and the same attribute names.
C10_Repeatable ==
    (attrLast.op = "new" /\ attrLast.again
        /\ attrLast.valueNames \subseteq DOMAIN attrLast.schemaBefore) =>
            /\ attrLast.err = NoErr
            /\ attrLast.primaryKey = firstBuilt.primaryKey
            /\ DOMAIN attrSchema = firstBuilt.names

\* C2: a call of AssignAttribute with an undeclared name returns
\* UnknownAttribute, one with a value the validator rejects returns the
\* validator's error, and both leave the instance's value map as it was
\* (nil if it was nil); a call that returns nil sets the entry of that name
\* and no other.
C2_AssignAtomic ==
    [][ attrLast'.op = "assign" =>
          LET name == attrLast'.name
              declared == name \in DOMAIN attrSchema
          IN  /\ ~declared =>
                    /\ attrLast'.err = ErrUnknownAttribute(name)
                    /\ attrRec'.values = attrRec.values
              /\ (declared /\ Validate(attrSchema[name], attrLast'.val) # NoErr) =>
                    /\ attrLast'.err = Validate(attrSchema[name], attrLast'.val)
                    /\ attrRec'.values = attrRec.values
              /\ attrLast'.err # NoErr => attrRec'.values = attrRec.values
              /\ attrLast'.err = NoErr =>
                    /\ ~attrRec'.values.isNil
                    /\ DOMAIN attrRec'.values.m = (DOMAIN attrRec.values.m) \cup {name}
                    /\ attrRec'.values.m[name] = attrLast'.val
                    /\ \A n \in (DOMAIN attrRec.values.m) \ {name} :
                            attrRec'.values.m[n] = attrRec.values.m[n]
      ]_vars

\* C2 happens: a value is rejected by a validation rule on an instance that
\* already holds values.
C2_Witness ==
    /\ attrLast.op = "assign"
    /\ attrLast.err.kind = "Validation"
    /\ DOMAIN attrRec.values.m # {}

(***************************************************************************)
(* Properties of the association registry (SpecAssoc).                     *)
(***************************************************************************)
LastIs(ops) == assocLast.op \in ops
Declared(name) == name \in DOMAIN assocKeys
Cached(name) == name \in DOMAIN assocValues

\* C3: when Association(name) has returned Ok(record) by delegating to the
\* resolver, the values cache holds that record under name, and an
\* Association(name) that follows returns the same result without invoking
\* the resolver.
C3_LazyCache ==
    [][ /\ (assocLast'.op = "Association" /\ assocLast'.out.resolved /\ assocLast'.out.res.ok) =>
                /\ assocLast'.name \in DOMAIN assocValues'
                /\ assocValues'[assocLast'.name] = assocLast'.out.res.val
        /\ (/\ assocLast.op = "Association" /\ assocLast.out.resolved /\ assocLast.out.res.ok
            /\ assocLast'.op = "Association" /\ assocLast'.name = assocLast.name) =>
                /\ assocLast'.out.res = assocLast.out.res
                /\ ~assocLast'.out.resolved
      ]_vars

\* C4: Association on a declared, uncached HasMany name fails with "is not a
\* singular association" without invoking the resolver; Collection on a
\* declared BelongsTo or HasOne name fails with "is not a collection
\* association" and returns no relation; both fail with UnknownAssociation
\* on an undeclared name, cached or not.
C4_KindMismatch ==
    /\ (LastIs({"Association"}) /\ Declared(assocLast.name) /\ ~Cached(assocLast.name)
            /\ assocKeys[assocLast.name].type = "has_many") =>
                /\ assocLast.out.res = ErrRecord(ErrNotSingular(assocLast.name))
                /\ ~assocLast.out.resolved
                /\ assocLast.out.reflected = <<>>
    /\ (LastIs({"Collection"}) /\ Declared(assocLast.name)
            /\ assocKeys[assocLast.name].type \in {"belongs_to", "has_one"}) =>
                /\ assocLast.out.res = ErrCollection(ErrNotCollection(assocLast.name))
                /\ ~assocLast.out.resolved
    /\ (LastIs({"Association"}) /\ ~Declared(assocLast.name)) =>
                /\ assocLast.out.res = ErrRecord(ErrUnknownAssociation(assocLast.name))
                /\ ~assocLast.out.resolved
    /\ (LastIs({"Collection"}) /\ ~Declared(assocLast.name)) =>
                /\ assocLast.out.res = ErrCollection(ErrUnknownAssociation(assocLast.name))
                /\ ~assocLast.out.resolved

\* C4 happens: Collection was called on a declared BelongsTo name.
C4_Witness ==
    /\ LastIs({"Collection"})
    /\ Declared(assocLast.name)
    /\ assocKeys[assocLast.name].type = "belongs_to"
    /\ ~assocLast.out.res.ok

\* the last call reached the HasOne resolver, which found its target
\* relation and got an answer from the storage engine
HasOneFetched ==
    /\ LastIs({"Association"})
    /\ assocLast.out.resolved
    /\ assocKeys[assocLast.name].type = "has_one"
    /\ assocKeys[assocLast.name].targetName \in registered
    /\ assocLast.out.seen.up

\* C5: a HasOne fetch answers by the number of rows of the target table
\* whose foreign-key column is the owner's id: none gives Ok(nil), one gives
\* Ok(that row's record), two or more give an AssociationError; and it
\* materialises at most two rows.
C5_HasOneCardinality ==
    HasOneFetched =>
        LET res == assocLast.out.res
            matched == assocLast.out.seen.matched
        IN  /\ matched = 0 => res = OkRecord(NilRecord)
            /\ matched = 1 =>
                    res = OkRecord(Record(assocKeys[assocLast.name].targetName,
                                          [id |-> OwnerID(Owner).int]))
            /\ matched >= 2 => (~res.ok /\ res.err = ErrHasMany /\ res.val = NilRecord)
            /\ assocLast.out.fetched <= 2

\* C5 happens: three rows match, of which the fetch materialised two.
C5_Witness ==
    /\ HasOneFetched
    /\ assocLast.out.seen.matched = 3
    /\ assocLast.out.fetched = 2
    /\ ~assocLast.out.res.ok

\* the last call reached a resolver that found its target relation
Fetching ==
    /\ LastIs({"Association", "AccessAssociation", "Collection", "AccessCollection"})
    /\ assocLast.out.resolved
    /\ assocKeys[assocLast.name].targetName \in registered

\* C6: for each of the three kinds AssociationForeignKey() is the declared
\* foreign key when one is set, and otherwise "<targetName>_id" for
\* BelongsTo and "<lower-cased owner name>_id" for HasMany; and a fetch
\* narrows or looks up by the column AssociationForeignKey() returns.
C6_ForeignKey ==
    Fetching =>
        LET a == assocKeys[assocLast.name]
        IN  /\ a.foreignKey # "" => AssociationForeignKey(a) = a.foreignKey
            /\ (a.foreignKey = "" /\ a.type = "belongs_to") =>
                    AssociationForeignKey(a) = a.targetName \o "_id"
            /\ (a.foreignKey = "" /\ a.type = "has_many") =>
                    AssociationForeignKey(a) = "owner_id"
            /\ assocLast.out.column = AssociationForeignKey(a)

\* the reflection of a declared association whose target kind is registered
TargetReflection(name) ==
    AssociationReflection(Relation(assocKeys[name].targetName), assocKeys[name])

\* C7: ReflectOnAssociation(name) is nil exactly when name is undeclared or
\* its target record kind is not registered, and otherwise pairs the target
\* kind's relation with the association; ReflectOnAllAssociations() returns
\* those pairs for exactly the declared associations whose target kind is
\* registered.
C7_Reflect ==
    /\ LastIs({"ReflectOnAssociation"}) =>
            IF Declared(assocLast.name) /\ assocKeys[assocLast.name].targetName \in registered
            THEN assocLast.got = TargetReflection(assocLast.name)
            ELSE assocLast.got = NoRec
    /\ LastIs({"ReflectOnAllAssociations"}) =>
            assocLast.got =
                { TargetReflection(n) :
                    n \in { k \in DOMAIN assocKeys : assocKeys[k].targetName \in registered } }

\* C8: a fetch whose target kind Schema-Reflection cannot resolve returns
\* that reflection error; a BelongsTo fetch whose Find fails (engine error or
\* not found) and a HasOne fetch whose ToA fails return that error; and
\* AccessAssociation and AccessCollection hand the caller the error of the
\* result with a nil value.
C8_ErrorsPropagate ==
    /\ (LastIs({"Association", "AccessAssociation", "Collection", "AccessCollection"})
            /\ assocLast.out.resolved
            /\ assocKeys[assocLast.name].targetName \notin registered) =>
                /\ ~assocLast.out.res.ok
                /\ assocLast.out.res.err =
                        ErrUnknownReflection(assocKeys[assocLast.name].targetName)
    /\ (LastIs({"Association", "AccessAssociation"}) /\ Fetching /\ ~assocLast.out.seen.up) =>
                /\ ~assocLast.out.res.ok
                /\ assocLast.out.res.err = ErrEngine
    /\ (LastIs({"Association", "AccessAssociation"}) /\ Fetching /\ assocLast.out.seen.up
            /\ assocKeys[assocLast.name].type = "belongs_to"
            /\ assocLast.out.seen.matched = 0) =>
                /\ ~assocLast.out.res.ok
                /\ assocLast.out.res.err = ErrRecordNotFound
    /\ LastIs({"AccessAssociation"}) =>
                /\ assocLast.err = assocLast.out.res.err
                /\ ~assocLast.out.res.ok => (assocLast.err # NoErr /\ assocLast.val = NilRecord)
    /\ LastIs({"AccessCollection"}) =>
                /\ assocLast.err = assocLast.out.res.err
                /\ ~assocLast.out.res.ok => (assocLast.err # NoErr /\ assocLast.val = NoRelation)

\* C8 happens: AccessAssociation reached a BelongsTo resolver whose target
\* kind is not registered.
C8_Witness ==
    /\ LastIs({"AccessAssociation"})
    /\ assocLast.out.resolved
    /\ assocKeys[assocLast.name].type = "belongs_to"
    /\ assocKeys[assocLast.name].targetName \notin registered
    /\ assocLast.val = NilRecord
    /\ assocLast.err.kind = "UnknownReflection"

\* C9: Association(name) with a record cached under name returns Ok(that
\* record) when name is declared, without invoking a resolver or
\* Schema-Reflection and leaving keys and values as they were, and fails
\* with UnknownAssociation when name is not declared.
C9_CachedValue ==
    [][ (assocLast'.op = "Association" /\ assocLast'.name \in DOMAIN assocValues) =>
          LET name == assocLast'.name
          IN  /\ name \in DOMAIN assocKeys =>
                    /\ assocLast'.out.res = OkRecord(assocValues[name])
                    /\ ~assocLast'.out.resolved
                    /\ assocLast'.out.reflected = <<>>
                    /\ assocKeys' = assocKeys
                    /\ assocValues' = assocValues
              /\ name \notin DOMAIN assocKeys =>
                    /\ assocLast'.out.res = ErrRecord(ErrUnknownAssociation(name))
                    /\ assocValues' = assocValues
      ]_vars

\* C9 happens: Association returned the record cached under a declared
\* singular name whose target kind is registered.
C9_Witness ==
    /\ LastIs({"Association"})
    /\ Cached(assocLast.name)
    /\ Declared(assocLast.name)
    /\ IsSingular(assocKeys[assocLast.name])
    /\ assocKeys[assocLast.name].targetName \in registered
    /\ assocLast.out.res = OkRecord(assocValues[assocLast.name])

====
